---- MODULE Spec2Model ----
(***************************************************************************)
(* Model of src/dashboard.py: the module-level load block that builds the  *)
(* global DataFrame df, the layout that reads it, the server start, and    *)
(* the two Dash callbacks that filter and aggregate it.                    *)
(*                                                                         *)
(* Encoding                                                                *)
(*  - A DataFrame is [columns, dtypes, rows]: the column labels in order   *)
(*    (labels may repeat, as pandas allows), the dtype of each column, and *)
(*    the rows as tuples aligned with the labels.                          *)
(*  - A CSV cell is its text.  The dtype read_csv infers for a column is   *)
(*    kept beside the cells, and astype(str) is computed from both.        *)
(*  - A Timestamp is the integer YYYYMMDDHH, which orders as time does;    *)
(*    its calendar date is the integer YYYYMMDD.                           *)
(*  - pandas semantics are those of pandas 1.x/2.x, the versions that      *)
(*    run with Dash's app.run_server: astype(str) turns NaN into "nan".    *)
(*  - Python's None is the string NoneValue where a string is expected and *)
(*    the empty tuple where a Timestamp is expected.                       *)
(***************************************************************************)
EXTENDS Integers, Sequences, FiniteSets, TLC

VARIABLES
    file,     \* the CSV at FILE_PATH, as found on disk
    pc,       \* position of the module-level script
    err,      \* the exception that ended the process, or NoError
    df,       \* the global DataFrame
    layout,   \* the initial properties of the layout's controls
    port,     \* the port the server binds to
    picker,   \* the date-picker's current start_date / end_date
    call,     \* the latest callback invocation: arguments and return value
    memo      \* history variable: one earlier callback invocation

vars == <<file, pc, err, df, layout, port, picker, call, memo>>

\* ------------------------------------------------------------------ bounds

\* the largest number of data rows of the CSV files explored
MaxRows == 2

\* ------------------------------------------------------- program constants

NaT == -1
start_date == 2017010100
end_date == 2025123100
cutoff_date == 2019123100
DefaultPort == 8050

\* a missing cell, as read_csv reads an empty field
NaN == ""
NoneValue == "None"
NoDate == <<>>
NoError == "none"
PreCovid == "Pre-COVID"
PostCovid == "Post-COVID"
CategoryColumn == "Sentiment Category"

\* ---------------------------------------------------------- frame helpers

Count(cols, name) == Cardinality({i \in 1..Len(cols) : cols[i] = name})

HasColumn(d, name) == Count(d.columns, name) > 0

Idx(d, name) == CHOOSE i \in 1..Len(d.columns) : d.columns[i] = name

Cell(d, r, name) == r[Idx(d, name)]

Column(d, name) == [i \in 1..Len(d.rows) |-> Cell(d, d.rows[i], name)]

At(d, i, name) == Cell(d, d.rows[i], name)

EmptyFrame == [columns |-> <<>>, dtypes |-> <<>>, rows |-> <<>>]

\* DataFrame.empty: any axis of length 0
IsEmpty(d) == Len(d.columns) = 0 \/ Len(d.rows) = 0

\* the row positions of a frame
Rows(d) == 1..Len(d.rows)

\* df[name] = values, a value for each row: replaces the column, or appends
\* a new one
Assign(d, name, dtype, values) ==
    IF HasColumn(d, name)
    THEN [columns |-> d.columns,
          dtypes |-> [d.dtypes EXCEPT ![Idx(d, name)] = dtype],
          rows |-> [i \in Rows(d) |-> [d.rows[i] EXCEPT ![Idx(d, name)] = values[i]]]]
    ELSE [columns |-> Append(d.columns, name),
          dtypes |-> Append(d.dtypes, dtype),
          rows |-> [i \in Rows(d) |-> Append(d.rows[i], values[i])]]

\* df[mask], mask a boolean for each row: the rows whose boolean is true, in
\* order
Where(d, mask) ==
    LET kept == SelectSeq([i \in Rows(d) |-> i], LAMBDA i : mask[i])
    IN [d EXCEPT !.rows = [k \in 1..Len(kept) |-> d.rows[kept[k]]]]

RECURSIVE Uniq(_, _)
Uniq(s, acc) ==
    IF s = <<>> THEN acc
    ELSE Uniq(Tail(s),
              IF \E i \in 1..Len(acc) : acc[i] = Head(s)
              THEN acc ELSE Append(acc, Head(s)))

\* Series.unique(): the distinct values in order of first appearance
unique(s) == Uniq(s, <<>>)

Range(s) == {s[i] : i \in 1..Len(s)}

Min(S) == CHOOSE x \in S : \A y \in S : x <= y

Max(S) == CHOOSE x \in S : \A y \in S : x >= y

\* ------------------------------------------------------------- CSV cells

IntCells == {"1"}

\* the dtype read_csv gives a column, from the text of all its cells
InferDtype(cells) ==
    IF cells # {} /\ cells \subseteq IntCells THEN "int64"
    ELSE IF cells # {} /\ cells \subseteq (IntCells \cup {NaN}) THEN "float64"
    ELSE "object"

\* mutant: the column is left as read, missing cells stay missing
astype_str_skipped(dtype, cell) == cell

\* what astype(str) makes of a cell of a column of the given dtype
astype_str(dtype, cell) ==
    IF cell = NaN THEN "nan"
    ELSE IF dtype = "float64" THEN
        CASE cell = "1" -> "1.0"
          [] OTHER -> cell
    ELSE cell

\* pd.to_datetime(text, errors="coerce")
to_datetime(cell) ==
    CASE cell = "2016-12-31 00:00" -> 2016123100
      [] cell = "2017-01-01 00:00" -> 2017010100
      [] cell = "2019-05-01 00:00" -> 2019050100
      [] cell = "2019-12-31 00:00" -> 2019123100
      [] cell = "2019-12-31 12:00" -> 2019123112
      [] cell = "2020-01-01 00:00" -> 2020010100
      [] cell = "2025-12-31 00:00" -> 2025123100
      [] cell = "2025-12-31 12:00" -> 2025123112
      [] cell = "2026-01-01 00:00" -> 2026010100
      [] OTHER -> NaT

\* the calendar date (YYYYMMDD) of a Timestamp
DateOf(t) == t \div 100

\* ------------------------------------------------------------ input files

\* the frame pd.read_csv returns for a readable, well-formed file; the cells
\* of a "count" column are given as the integers read_csv parses them to
read_csv(f) ==
    [columns |-> f.columns,
     dtypes |-> [i \in 1..Len(f.columns) |->
                   IF f.columns[i] = "count" THEN "int64"
                   ELSE InferDtype({f.rows[k][i] : k \in 1..Len(f.rows)})],
     rows |-> f.rows]

\* the exception pd.read_csv raises for the file, or NoError
read_csv_error(f) ==
    CASE f.status = "missing" -> "FileNotFoundError"
      [] f.status = "malformed" -> "ParserError"
      [] OTHER -> NoError

\* ------------------------------------------------------- the load block

\* if "date" in df.columns: df.rename(columns={"date": "month"})
rename_date(d) ==
    IF HasColumn(d, "date")
    THEN [d EXCEPT !.columns = [i \in 1..Len(d.columns) |->
                       IF d.columns[i] = "date" THEN "month" ELSE d.columns[i]]]
    ELSE d

\* what df["month"] = pd.to_datetime(df["month"], errors="coerce") raises:
\* no such label is a KeyError; a repeated label makes df["month"] a
\* DataFrame, which to_datetime cannot assemble into dates
month_error(d) ==
    CASE Count(d.columns, "month") = 0 -> "KeyError"
      [] Count(d.columns, "month") > 1 -> "ValueError"
      [] OTHER -> NoError

parse_month(d) ==
    Assign(d, "month", "datetime64", [i \in Rows(d) |-> to_datetime(At(d, i, "month"))])

\* df.dropna(subset=["month"])
dropna_month(d) == Where(d, [i \in Rows(d) |-> At(d, i, "month") # NaT])

\* mutant: the upper bound of the range is not applied
in_range_no_upper(x) == x >= start_date

\* (df["month"] >= start_date) & (df["month"] <= end_date)
in_range(x) == x >= start_date /\ x <= end_date

filter_range(d) == Where(d, [i \in Rows(d) |-> in_range(At(d, i, "month"))])

\* df["Sentiment Category"] = df["Sentiment Category"].astype(str)
category_error(d) == IF HasColumn(d, CategoryColumn) THEN NoError ELSE "KeyError"

category_to_str(d) ==
    Assign(d, CategoryColumn, "object",
           [i \in Rows(d) |-> astype_str(d.dtypes[Idx(d, CategoryColumn)],
                                         At(d, i, CategoryColumn))])

\* if "count" not in df.columns: df["count"] = 1
default_count(d) ==
    IF HasColumn(d, "count") THEN d ELSE Assign(d, "count", "int64", [i \in Rows(d) |-> 1])

\* lambda x: "Pre-COVID" if x <= cutoff_date else "Post-COVID"
period_of(x) == IF x <= cutoff_date THEN PreCovid ELSE PostCovid

add_period(d) ==
    Assign(d, "Period", "object", [i \in Rows(d) |-> period_of(At(d, i, "month"))])

\* the body of the try block: [raised, frame]
try_load(f) ==
    IF read_csv_error(f) # NoError
    THEN [raised |-> read_csv_error(f), frame |-> EmptyFrame]
    ELSE LET d1 == rename_date(read_csv(f)) IN
         IF month_error(d1) # NoError
         THEN [raised |-> month_error(d1), frame |-> d1]
         ELSE LET d2 == filter_range(dropna_month(parse_month(d1))) IN
              IF category_error(d2) # NoError
              THEN [raised |-> category_error(d2), frame |-> d2]
              ELSE [raised |-> NoError,
                    frame |-> add_period(default_count(category_to_str(d2)))]

\* try: ... except Exception: df = pd.DataFrame()
load(f) == IF try_load(f).raised = NoError THEN try_load(f).frame ELSE EmptyFrame

\* lines 13-51.  BASE_DIR is assigned nowhere in the module: the name is
\* bound only if the environment that executes the module supplies it, and
\* line 13 stands before the try block.
LoadDataset ==
    /\ pc = "start"
    /\ \E baseDirBound \in BOOLEAN :
         IF baseDirBound
         THEN /\ df' = load(file)
              /\ pc' = "loaded"
              /\ err' = err
         ELSE /\ pc' = "aborted"
              /\ err' = "NameError: BASE_DIR"
              /\ df' = df
    /\ UNCHANGED <<file, layout, port, picker, call, memo>>

\* ------------------------------------------------------------ the layout

\* the platform dropdown reads df["source"] whenever df is not empty
layout_error(d) ==
    IF ~IsEmpty(d) /\ ~HasColumn(d, "source") THEN "KeyError: source" ELSE NoError

platform_options(d) == IF ~IsEmpty(d) THEN unique(Column(d, "source")) ELSE <<>>

platform_value(d) == IF ~IsEmpty(d) THEN unique(Column(d, "source"))[1] ELSE NoneValue

picker_start(d) == IF ~IsEmpty(d) THEN <<Min(Range(Column(d, "month")))>> ELSE NoDate

picker_end(d) == IF ~IsEmpty(d) THEN <<Max(Range(Column(d, "month")))>> ELSE NoDate

NoLayout == [built |-> FALSE]

\* lines 57-101
BuildLayout ==
    /\ pc = "loaded"
    /\ IF layout_error(df) # NoError
       THEN /\ pc' = "aborted"
            /\ err' = layout_error(df)
            /\ UNCHANGED <<layout, picker>>
       ELSE /\ pc' = "laidout"
            /\ err' = err
            /\ layout' = [built |-> TRUE,
                          platform_options |-> platform_options(df),
                          platform_value |-> platform_value(df),
                          period_value |-> PreCovid]
            /\ picker' = [start_date |-> picker_start(df), end_date |-> picker_end(df)]
    /\ UNCHANGED <<file, df, port, call, memo>>

\* ------------------------------------------------------------ the server

PortEnvs == {"unset", "8050", "http"}

\* int(os.environ.get("PORT", 8050)) raises ValueError on a non-number
port_error(env) == IF env = "http" THEN "ValueError: PORT" ELSE NoError

int_port(env) == DefaultPort

\* lines 182-184: port is assigned only under __name__ == "__main__", and
\* app.run_server(port=port) stands outside the if
RunServer ==
    /\ pc = "laidout"
    /\ \E isMain \in BOOLEAN, env \in PortEnvs :
         IF ~isMain
         THEN /\ pc' = "aborted"
              /\ err' = "NameError: port"
              /\ port' = port
         ELSE IF port_error(env) # NoError
         THEN /\ pc' = "aborted"
              /\ err' = port_error(env)
              /\ port' = port
         ELSE /\ pc' = "serving"
              /\ err' = err
              /\ port' = <<int_port(env)>>
    /\ UNCHANGED <<file, df, layout, picker, call, memo>>

\* ---------------------------------------------------------- the callbacks

Platforms == {"X", "Y", NoneValue}

Periods == {PreCovid, PostCovid, NoneValue}

\* mutant: the period is left out of the mask
select_platform_only(d, platform, period) ==
    Where(d, [i \in Rows(d) |-> At(d, i, "source") = platform])

\* df[(df["source"] == platform) & (df["Period"] == period)]
select(d, platform, period) ==
    Where(d, [i \in Rows(d) |-> At(d, i, "source") = platform /\ At(d, i, "Period") = period])

\* Series.value_counts(): the pairs <<value, number of occurrences>>, missing
\* values left out (dropna=True); the order of the pairs is not modelled
value_counts(s) ==
    {<<v, Cardinality({i \in 1..Len(s) : s[i] = v})>> : v \in Range(s) \ {NaN}}

RECURSIVE SumSeq(_)
SumSeq(s) == IF s = <<>> THEN 0 ELSE Head(s) + SumSeq(Tail(s))

\* mutant: .size() in place of ["count"].sum()
groupby_size(d) ==
    {<<k[1], k[2],
       Len(Where(d, [i \in Rows(d) |-> /\ At(d, i, "month") = k[1]
                                        /\ At(d, i, CategoryColumn) = k[2]]).rows)>> :
       k \in {<<Cell(d, d.rows[i], "month"), Cell(d, d.rows[i], CategoryColumn)>> :
                i \in {j \in 1..Len(d.rows) : Cell(d, d.rows[j], CategoryColumn) # NaN}}}

\* groupby(["month", "Sentiment Category"])["count"].sum().reset_index():
\* the rows <<month, category, sum>>, rows with a missing key left out
\* (dropna=True); the order of the rows is not modelled
groupby_sum(d) ==
    {<<k[1], k[2],
       SumSeq(Column(Where(d, [i \in Rows(d) |-> /\ At(d, i, "month") = k[1]
                                                  /\ At(d, i, CategoryColumn) = k[2]]),
                     "count"))>> :
       k \in {<<Cell(d, d.rows[i], "month"), Cell(d, d.rows[i], CategoryColumn)>> :
                i \in {j \in 1..Len(d.rows) : Cell(d, d.rows[j], CategoryColumn) # NaN}}}

\* the body of update_radar_chart, on the frame d it finds in the global df
radar_chart(d, platform, period) ==
    IF IsEmpty(d) \/ platform = NoneValue \/ period = NoneValue
    THEN [title |-> <<"Sentiment Distribution">>,
          figure |-> [chart |-> "line_polar", title |-> <<"No Data Available">>,
                      data |-> {}]]
    ELSE LET filtered_df == select(d, platform, period) IN
         IF IsEmpty(filtered_df)
         THEN [title |-> <<"Sentiment Distribution on", platform, period>>,
               figure |-> [chart |-> "line_polar",
                           title |-> <<"No Sentiment Data for", platform, period>>,
                           data |-> {<<"No Data", 1>>}]]
         ELSE [title |-> <<"Sentiment Distribution on", platform, period>>,
               figure |-> [chart |-> "line_polar",
                           title |-> <<"Sentiment Distribution on", platform, period>>,
                           data |-> value_counts(Column(filtered_df, CategoryColumn))]]

\* lines 113-140: the return value, title and figure
update_radar_chart(platform, period) == radar_chart(df, platform, period)

\* the body of update_trend_chart, on the frame d it finds in the global df
trend_chart(d, platform, period) ==
    IF IsEmpty(d) \/ platform = NoneValue \/ period = NoneValue
    THEN [title |-> <<"Sentiment Trend Over Time">>,
          figure |-> [chart |-> "line", title |-> <<"No Data Available">>,
                      data |-> {}]]
    ELSE LET filtered_df == select(d, platform, period) IN
         IF IsEmpty(filtered_df)
         THEN [title |-> <<"Sentiment Trend on", platform, period>>,
               figure |-> [chart |-> "line",
                           title |-> <<"No Sentiment Data for", platform, period>>,
                           data |-> {}]]
         ELSE [title |-> <<"Sentiment Trend on", platform, period>>,
               figure |-> [chart |-> "line",
                           title |-> <<"Sentiment Trend on", platform, period>>,
                           data |-> groupby_sum(filtered_df)]]

\* mutant: the date picker's range is applied to the rows before the filter
update_trend_chart_by_picker(platform, period) ==
    trend_chart(IF picker.start_date = NoDate \/ IsEmpty(df) THEN df
                ELSE Where(df, [i \in Rows(df) |->
                                  /\ At(df, i, "month") >= picker.start_date[1]
                                  /\ At(df, i, "month") <= picker.end_date[1]]),
                platform, period)

\* lines 149-176: the return value, title and figure
update_trend_chart(platform, period) == trend_chart(df, platform, period)

NoCall == [cb |-> "none"]

Invocation(cb, platform, period, ret) ==
    [cb |-> cb, platform |-> platform, period |-> period, picker |-> picker, ret |-> ret]

\* mutant: the callback rebinds the global df to its filtered slice
RadarCallbackRebindingDf(platform, period, mark) ==
    /\ pc = "serving"
    /\ call' = Invocation("radar", platform, period, update_radar_chart(platform, period))
    /\ memo' = IF mark THEN call' ELSE memo
    /\ df' = IF IsEmpty(df) \/ platform = NoneValue \/ period = NoneValue
             THEN df ELSE select(df, platform, period)
    /\ UNCHANGED <<file, pc, err, layout, port, picker>>

\* Dash invokes update_radar_chart with the values of its two Inputs; with
\* mark, the invocation is also kept in the history variable
RadarCallback(platform, period, mark) ==
    /\ pc = "serving"
    /\ call' = Invocation("radar", platform, period, update_radar_chart(platform, period))
    /\ memo' = IF mark THEN call' ELSE memo
    /\ UNCHANGED <<file, pc, err, df, layout, port, picker>>

\* Dash invokes update_trend_chart with the values of its two Inputs
TrendCallback(platform, period, mark) ==
    /\ pc = "serving"
    /\ call' = Invocation("trend", platform, period, update_trend_chart(platform, period))
    /\ memo' = IF mark THEN call' ELSE memo
    /\ UNCHANGED <<file, pc, err, df, layout, port, picker>>

PickerDates == {2020010100}

\* lines 85-92, 110-111, 146-147: the date picker is an Input of no callback
PickDates(start, end) ==
    /\ pc = "serving"
    /\ start <= end
    /\ picker' = [start_date |-> <<start>>, end_date |-> <<end>>]
    /\ UNCHANGED <<file, pc, err, df, layout, port, call, memo>>

\* ------------------------------------------------------- the files explored

AllColumns == <<"date", "month", "source", CategoryColumn, "count">>

DateCells == {"2016-12-31 00:00", "2017-01-01 00:00", "2019-12-31 00:00",
              "2019-12-31 12:00", "2020-01-01 00:00", "2025-12-31 00:00",
              "2025-12-31 12:00", "2026-01-01 00:00", "not-a-date"}

CategoryCells == {"positive", "negative", "1", ""}

RowSeqs(R) == UNION {[1..n -> R] : n \in 0..MaxRows}

CsvFiles(cols, R) == {[status |-> "ok", columns |-> cols, rows |-> rs] : rs \in RowSeqs(R)}

\* every date cell, one platform, one category
DateFiles ==
    CsvFiles(<<"date", "source", CategoryColumn>>,
             {<<d, "X", "positive">> : d \in DateCells})

\* every category cell, two platforms, one date
CategoryFiles ==
    CsvFiles(<<"month", "source", CategoryColumn>>,
             {<<"2019-12-31 00:00", s, c>> : s \in {"X", "Y"}, c \in CategoryCells})

\* a count column, three months, two categories
CountFiles ==
    CsvFiles(<<"month", "source", CategoryColumn, "count">>,
             {<<m, "X", c, n>> :
                m \in {"2019-05-01 00:00", "2019-12-31 00:00", "2020-01-01 00:00"},
                c \in {"positive", "negative"}, n \in {1, 2}})

\* two platforms on either side of the cutoff
PlatformFiles ==
    CsvFiles(<<"date", "source", CategoryColumn>>,
             {<<d, s, "positive">> :
                d \in {"2019-12-31 00:00", "2020-01-01 00:00"}, s \in {"X", "Y"}})

SampleCell(c) ==
    CASE c = "date" -> "2019-12-31 00:00"
      [] c = "month" -> "2020-01-01 00:00"
      [] c = "source" -> "X"
      [] c = CategoryColumn -> "positive"
      [] c = "count" -> 2

\* every subset of the recognised columns, with the same row repeated
SchemaFiles ==
    UNION {LET cols == SelectSeq(AllColumns, LAMBDA c : c \in C) IN
           CsvFiles(cols, {[i \in 1..Len(cols) |-> SampleCell(cols[i])]}) :
           C \in SUBSET Range(AllColumns)}

BrokenFiles ==
    {[status |-> st, columns |-> <<>>, rows |-> <<>>] : st \in {"missing", "malformed"}}

Files == DateFiles \cup CategoryFiles \cup CountFiles \cup SchemaFiles \cup BrokenFiles

MemoFiles == PlatformFiles \cup SchemaFiles \cup BrokenFiles

\* ------------------------------------------------------- specifications

InitWith(F) ==
    /\ file \in F
    /\ pc = "start"
    /\ err = NoError
    /\ df = EmptyFrame
    /\ layout = NoLayout
    /\ port = <<>>
    /\ picker = [start_date |-> NoDate, end_date |-> NoDate]
    /\ call = NoCall
    /\ memo = NoCall

Init == InitWith(Files)

InitMemo == InitWith(MemoFiles)

Next ==
    \/ LoadDataset
    \/ BuildLayout
    \/ RunServer
    \/ \E platform \in Platforms, period \in Periods : RadarCallback(platform, period, FALSE)
    \/ \E platform \in Platforms, period \in Periods : TrendCallback(platform, period, FALSE)
    \/ \E start \in PickerDates, end \in PickerDates : PickDates(start, end)

NextMemo ==
    \/ LoadDataset
    \/ BuildLayout
    \/ RunServer
    \/ \E platform \in Platforms, period \in Periods, mark \in BOOLEAN :
         RadarCallback(platform, period, mark)
    \/ \E platform \in Platforms, period \in Periods, mark \in BOOLEAN :
         TrendCallback(platform, period, mark)
    \/ \E start \in PickerDates, end \in PickerDates : PickDates(start, end)

Spec == Init /\ [][Next]_vars

SpecMemo == InitMemo /\ [][NextMemo]_vars

\* ================================================================ claims

Loaded == pc \in {"loaded", "laidout", "serving"}

\* what the return value of a callback shows
ResultKind(ret) ==
    CASE ret.figure.title = <<"No Data Available">> -> "no data"
      [] ret.figure.title[1] = "No Sentiment Data for" -> "no matching rows"
      [] OTHER -> "populated"

\* the rows of df a selection is about
Slice(platform, period) ==
    {i \in Rows(df) : /\ Cell(df, df.rows[i], "source") = platform
                      /\ Cell(df, df.rows[i], "Period") = period}

\* ---- C1
\* the construction of the Dataset fails: FILE_PATH cannot be resolved, or
\* the try block raises
ConstructionFails ==
    \/ err = "NameError: BASE_DIR"
    \/ pc # "start" /\ try_load(file).raised # NoError

\* C1: however the construction of the Dataset fails at startup, the process
\* does not abort, it continues with an empty Dataset, and every selection
\* in either callback returns the "no data" result.
C1_LoadFailureFallsBack ==
    ConstructionFails =>
        /\ pc # "aborted"
        /\ IsEmpty(df)
        /\ call # NoCall => ResultKind(call.ret) = "no data"

\* ---- C2
MissingRequiredColumn(f) ==
    /\ f.status = "ok"
    /\ \/ "source" \notin Range(f.columns)
       \/ CategoryColumn \notin Range(f.columns)
       \/ "month" \notin Range(f.columns) /\ "date" \notin Range(f.columns)

\* C2: if the file lacks the source column, or the Sentiment Category column,
\* or both month and date, normalization ends with an empty Dataset and the
\* process runs on through the construction of the layout without raising.
C2_MissingColumnGivesEmptyDataset ==
    MissingRequiredColumn(file) =>
        /\ Loaded => IsEmpty(df)
        /\ err # "KeyError: source"

\* ---- C3
\* C3: every record retained in the Dataset has a timestamp whose calendar
\* date lies between 2017-01-01 and 2025-12-31, both inclusive, in every state
\* from the load on.
C3_RetainedInRange ==
    \A i \in Rows(df) :
        /\ DateOf(start_date) <= DateOf(Cell(df, df.rows[i], "month"))
        /\ DateOf(Cell(df, df.rows[i], "month")) <= DateOf(end_date)

\* a callback has run on a Dataset that kept a record of the last day of the
\* range while the file also held a row that is out of range
C3_Witness ==
    /\ pc = "serving"
    /\ call # NoCall
    /\ \E i \in Rows(df) : Cell(df, df.rows[i], "month") = end_date
    /\ file.columns[1] = "date"
    /\ \E k \in 1..Len(file.rows) : to_datetime(file.rows[k][1]) > end_date
    /\ Len(df.rows) < Len(file.rows)

\* ---- C4
\* C4: every retained record carries exactly one period label, Pre-COVID if
\* and only if its timestamp is on or before the calendar date 2019-12-31,
\* and Post-COVID otherwise.
C4_PeriodByCalendarDate ==
    Loaded /\ ~IsEmpty(df) =>
        \A i \in Rows(df) :
            /\ Cell(df, df.rows[i], "Period") \in {PreCovid, PostCovid}
            /\ Cell(df, df.rows[i], "Period") = PreCovid
                 <=> DateOf(Cell(df, df.rows[i], "month")) <= DateOf(cutoff_date)

\* ---- C9
HasBothDateAndMonth(f) ==
    f.status = "ok" /\ "date" \in Range(f.columns) /\ "month" \in Range(f.columns)

\* the in-range timestamps of the file's month column, in file order
MonthsOf(f) ==
    LET m == CHOOSE i \in 1..Len(f.columns) : f.columns[i] = "month"
        kept == SelectSeq(f.rows, LAMBDA r : /\ to_datetime(r[m]) # NaT
                                             /\ in_range(to_datetime(r[m])))
    IN [i \in 1..Len(kept) |-> to_datetime(kept[i][m])]

\* C9: date is renamed to month if and only if the file has a date column and
\* no month column; for a file with both, nothing is renamed, the month column
\* is the one parsed, and the load yields the records of the file.
C9_RenameOnlyWithoutMonth ==
    /\ Loaded /\ file.status = "ok" =>
         (rename_date(read_csv(file)).columns # file.columns
            <=> "date" \in Range(file.columns) /\ "month" \notin Range(file.columns))
    /\ Loaded /\ HasBothDateAndMonth(file) /\ CategoryColumn \in Range(file.columns) =>
         Column(df, "month") = MonthsOf(file)

\* ---- C5
\* C5: a selection returns "no data" exactly when the Dataset is empty or the
\* platform or the period is unset; otherwise "no matching rows" exactly when
\* no record has that source and that period; otherwise a populated result.
\* The three results are told apart by what is returned, and none is an error.
C5_ThreeWaySelection ==
    call # NoCall =>
        /\ pc = "serving" /\ err = NoError
        /\ ResultKind(call.ret) =
             IF IsEmpty(df) \/ call.platform = NoneValue \/ call.period = NoneValue
             THEN "no data"
             ELSE IF Slice(call.platform, call.period) = {}
             THEN "no matching rows"
             ELSE "populated"

\* a selection of a platform and a period that no record of a non-empty
\* Dataset has
C5_Witness ==
    /\ call # NoCall
    /\ call.cb = "trend"
    /\ ~IsEmpty(df)
    /\ call.platform # NoneValue /\ call.period # NoneValue
    /\ \E i \in Rows(df) : Cell(df, df.rows[i], "source") = call.platform
    /\ ResultKind(call.ret) = "no matching rows"

\* ---- C6
\* the sum of f[x] over the x in S
RECURSIVE SumOver(_, _)
SumOver(S, f) ==
    IF S = {} THEN 0
    ELSE LET x == CHOOSE y \in S : TRUE IN f[x] + SumOver(S \ {x}, f)

CategoryAt(i) == Cell(df, df.rows[i], CategoryColumn)

\* C6: the distribution of a non-empty slice has one entry for each distinct
\* sentiment category of the slice, each entry is the number of rows of the
\* slice with that category, and the entries sum to the number of rows of the
\* slice: no row is left uncounted, whatever its category cell held.
C6_DistributionIsFrequencyTable ==
    call # NoCall /\ call.cb = "radar" /\ ResultKind(call.ret) = "populated" =>
        LET S == Slice(call.platform, call.period)
            data == call.ret.figure.data
        IN /\ S # {}
           /\ {e[1] : e \in data} = {CategoryAt(i) : i \in S}
           /\ Cardinality(data) = Cardinality({CategoryAt(i) : i \in S})
           /\ \A e \in data : e[2] = Cardinality({i \in S : CategoryAt(i) = e[1]})
           /\ SumOver(data, [e \in data |-> e[2]]) = Cardinality(S)

\* a distribution of two categories, one of them from a missing cell
C6_Witness ==
    /\ call # NoCall /\ call.cb = "radar" /\ ResultKind(call.ret) = "populated"
    /\ Cardinality(call.ret.figure.data) = 2
    /\ \E e \in call.ret.figure.data : e[1] = "nan"
    /\ \E k \in 1..Len(file.rows) : NaN \in Range(file.rows[k])

\* ---- C7
KeyAt(i) == <<Cell(df, df.rows[i], "month"), CategoryAt(i)>>

\* the count of a record: the file's, or 1 when the file has no count column
CountAt(i) ==
    IF "count" \in Range(file.columns) THEN Cell(df, df.rows[i], "count") ELSE 1

\* C7: the trend of a non-empty slice has exactly one row for each pair of
\* month and category that occurs in the slice and none for any other pair,
\* and the count of a row is the sum of count over the rows of the slice with
\* that month and category, count being 1 where the file had no count column.
C7_TrendIsSumAggregate ==
    call # NoCall /\ call.cb = "trend" /\ ResultKind(call.ret) = "populated" =>
        LET S == Slice(call.platform, call.period)
            data == call.ret.figure.data
        IN /\ S # {}
           /\ {<<e[1], e[2]>> : e \in data} = {KeyAt(i) : i \in S}
           /\ Cardinality(data) = Cardinality({KeyAt(i) : i \in S})
           /\ \A e \in data :
                e[3] = SumOver({i \in S : KeyAt(i) = <<e[1], e[2]>>}, [i \in S |-> CountAt(i)])

\* a trend row that sums the counts 1 and 2 of two rows of one month and
\* category
C7_Witness ==
    /\ call # NoCall /\ call.cb = "trend" /\ ResultKind(call.ret) = "populated"
    /\ "count" \in Range(file.columns)
    /\ \E e \in call.ret.figure.data : e[3] = 3

\* ---- C8
SameSelection(a, b) ==
    /\ a # NoCall /\ b # NoCall
    /\ a.cb = b.cb /\ a.platform = b.platform /\ a.period = b.period

\* C8: once loaded, the Dataset is changed by no step, and whatever callbacks
\* ran in between, a callback invoked again with the arguments of an earlier
\* invocation returns what that invocation returned.
C8_SelectionIsPure ==
    /\ [](SameSelection(memo, call) => call.ret = memo.ret)
    /\ [][pc = "serving" => df' = df]_vars

\* the radar callback returned a populated result for a selection it had been
\* invoked with before, the date picker having been moved in between
C8_Witness ==
    /\ SameSelection(memo, call)
    /\ call.cb = "radar"
    /\ ResultKind(call.ret) = "populated"
    /\ memo.picker # call.picker

\* ---- C10
\* C10: a change of the date picker invokes neither callback, and a callback
\* returns the same result for the same platform and period whatever the
\* date picker held at either invocation.
C10_PickerDoesNotInterfere ==
    /\ [][picker' # picker => call' = call]_vars
    /\ [](SameSelection(memo, call) /\ memo.picker # call.picker
            => call.ret = memo.ret)

\* the trend callback returned a populated result before and after the date
\* picker was moved off the dates of the selected records
C10_Witness ==
    /\ SameSelection(memo, call)
    /\ call.cb = "trend"
    /\ ResultKind(call.ret) = "populated"
    /\ memo.picker # call.picker
    /\ call.picker.start_date # NoDate
    /\ \A i \in Slice(call.platform, call.period) :
         Cell(df, df.rows[i], "month") < call.picker.start_date[1]

====
